---- MODULE Spec2Model ----
(***************************************************************************)
(* A model of the AI medical prescription analyzer: the Config tables      *)
(* (config.py), the PrescriptionAnalyzer operations                        *)
(* (prescription_analyzer.py) and the API-key update of the UI (app.py).   *)
(* Python strings are TLA+ strings; the regular expressions of the program *)
(* are run by a backtracking matcher that follows Python's re semantics    *)
(* (leftmost match, greedy quantifiers, alternatives in order).            *)
(***************************************************************************)
EXTENDS Integers, Sequences, FiniteSets, TLC

VARIABLES
    DOSAGE_PATTERNS,          \* Config.DOSAGE_PATTERNS
    FREQUENCY_PATTERNS,       \* Config.FREQUENCY_PATTERNS
    COMMON_DRUGS,             \* Config.COMMON_DRUGS, in insertion order
    MEDICAL_ECOMMERCE_SITES,  \* Config.MEDICAL_ECOMMERCE_SITES
    GEMINI_API_KEY,           \* the class attribute Config.GEMINI_API_KEY
    config_key,               \* the instance attribute analyzer.config.GEMINI_API_KEY
    genai_key,                \* the key last passed to genai.configure
    ner_pipeline,             \* analyzer.ner_pipeline: "loaded" or "none"
    pc,                       \* "idle", or "done" after an operation returned
    op,                       \* the operation that ran last
    arg,                      \* its input
    ret,                      \* the value it returned
    raised,                   \* TRUE when it ended with an exception
    seen                      \* history: whether a call of recognize_and_standardize_drugs
                              \* was noted, and the text and the result of the first

vars == <<DOSAGE_PATTERNS, FREQUENCY_PATTERNS, COMMON_DRUGS, MEDICAL_ECOMMERCE_SITES,
          GEMINI_API_KEY, config_key, genai_key, ner_pipeline, pc, op, arg, ret, raised, seen>>

tables == <<DOSAGE_PATTERNS, FREQUENCY_PATTERNS, COMMON_DRUGS, MEDICAL_ECOMMERCE_SITES>>
keys == <<GEMINI_API_KEY, config_key, genai_key, ner_pipeline>>

(***************************************************************************)
(* Strings. Texts are ASCII: letters, digits, punctuation and the          *)
(* whitespace characters below.                                            *)
(***************************************************************************)
UPPERCASE == "ABCDEFGHIJKLMNOPQRSTUVWXYZ"
LOWERCASE == "abcdefghijklmnopqrstuvwxyz"
DIGITS == "0123456789"

CharsOf(s) == {SubSeq(s, i, i) : i \in 1..Len(s)}

Upper == CharsOf(UPPERCASE)
Alpha == CharsOf(UPPERCASE) \cup CharsOf(LOWERCASE)
Digit == CharsOf(DIGITS)
Space == {" ", "\t", "\n", "\r"}
Word == Alpha \cup Digit \cup {"_"}

\* str.lower() on one character
lower_char == [c \in Upper |->
                 LET i == CHOOSE k \in 1..Len(UPPERCASE) : SubSeq(UPPERCASE, k, k) = c
                 IN  SubSeq(LOWERCASE, i, i)]

RECURSIVE lower(_)
\* str.lower()
lower(s) ==
    IF s = "" THEN ""
    ELSE LET c == SubSeq(s, 1, 1)
         IN  (IF c \in Upper THEN lower_char[c] ELSE c) \o lower(SubSeq(s, 2, Len(s)))

RECURSIVE lstrip(_)
lstrip(s) == IF s # "" /\ SubSeq(s, 1, 1) \in Space THEN lstrip(SubSeq(s, 2, Len(s))) ELSE s

RECURSIVE rstrip(_)
rstrip(s) ==
    IF s # "" /\ SubSeq(s, Len(s), Len(s)) \in Space THEN rstrip(SubSeq(s, 1, Len(s) - 1)) ELSE s

\* str.strip()
strip(s) == rstrip(lstrip(s))

\* the Python test  a in b  on two strings
contains(b, a) == \E i \in 1..(Len(b) - Len(a) + 1) : SubSeq(b, i, i + Len(a) - 1) = a

\* replace_space with the escaping forgotten
replace_space_forgotten(s) == s

RECURSIVE replace_space(_)
\* str.replace(' ', '%20')
replace_space(s) ==
    IF s = "" THEN ""
    ELSE LET c == SubSeq(s, 1, 1)
         IN  (IF c = " " THEN "%20" ELSE c) \o replace_space(SubSeq(s, 2, Len(s)))

\* the Python test  x in xs  on a list
in_list(x, xs) == \E i \in 1..Len(xs) : xs[i] = x

RECURSIVE flatten(_)
flatten(ss) == IF ss = <<>> THEN <<>> ELSE Head(ss) \o flatten(Tail(ss))

(***************************************************************************)
(* Regular expressions: the compiled form of a pattern and the matcher.    *)
(* A node is a tuple whose first element names its kind.                   *)
(***************************************************************************)
Lit(s) == <<"lit", s>>            \* literal text, in lower case
Cls(S) == <<"cls", S>>            \* one character of the set S
WB == <<"wb">>                    \* \b
Cat(rs) == <<"cat", rs>>          \* r1 r2 ... rn
Alt(rs) == <<"alt", rs>>          \* r1 | r2 | ... | rn
Star(r) == <<"star", r>>          \* r*
Plus(r) == <<"plus", r>>          \* r+
Opt(r) == <<"opt", r>>            \* r?
AtLeast(k, r) == <<"atleast", k, r>>   \* r{k,}
Group(r) == <<"group", r>>        \* ( r ), the capturing group

\* no group captured yet
NoGroup == <<0, 0>>

is_word_at(s, i) == i >= 1 /\ i <= Len(s) /\ SubSeq(s, i, i) \in Word

\* \b holds between the characters i-1 and i
at_boundary(s, i) == is_word_at(s, i - 1) # is_word_at(s, i)

RECURSIVE match_here(_, _, _, _)
\* The ways node r matches s from position i, in the order the backtracking
\* matcher tries them, each as <<position after the match, span of the group>>.
\* re.IGNORECASE: s is the text lower-cased, and the literals and the classes of
\* the compiled patterns hold the lower-case letters.
match_here(r, s, i, g) ==
    CASE r[1] = "lit" ->
           LET n == Len(r[2])
           IN  IF i + n - 1 <= Len(s) /\ SubSeq(s, i, i + n - 1) = r[2]
               THEN <<<<i + n, g>>>> ELSE <<>>
      [] r[1] = "cls" ->
           IF i <= Len(s) /\ SubSeq(s, i, i) \in r[2] THEN <<<<i + 1, g>>>> ELSE <<>>
      [] r[1] = "wb" ->
           IF at_boundary(s, i) THEN <<<<i, g>>>> ELSE <<>>
      [] r[1] = "cat" ->
           IF r[2] = <<>> THEN <<<<i, g>>>>
           ELSE LET first == match_here(Head(r[2]), s, i, g)
                IN  flatten([k \in 1..Len(first) |->
                               match_here(Cat(Tail(r[2])), s, first[k][1], first[k][2])])
      [] r[1] = "alt" ->
           flatten([k \in 1..Len(r[2]) |-> match_here(r[2][k], s, i, g)])
      [] r[1] = "star" ->
           LET once == match_here(r[2], s, i, g)
           IN  flatten([k \in 1..Len(once) |->
                          IF once[k][1] > i
                          THEN match_here(r, s, once[k][1], once[k][2]) ELSE <<>>])
               \o <<<<i, g>>>>
      [] r[1] = "plus" ->
           match_here(Cat(<<r[2], Star(r[2])>>), s, i, g)
      [] r[1] = "opt" ->
           match_here(r[2], s, i, g) \o <<<<i, g>>>>
      [] r[1] = "atleast" ->
           IF r[2] = 0 THEN match_here(Star(r[3]), s, i, g)
           ELSE match_here(Cat(<<r[3], AtLeast(r[2] - 1, r[3])>>), s, i, g)
      [] r[1] = "group" ->
           LET inner == match_here(r[2], s, i, g)
           IN  [k \in 1..Len(inner) |-> <<inner[k][1], <<i, inner[k][1]>>>>]

RECURSIVE search(_, _, _)
\* the leftmost match of r in s at or after pos: <<start, end, group span>>, or <<>>
search(r, s, pos) ==
    IF pos > Len(s) + 1 THEN <<>>
    ELSE LET m == match_here(r, s, pos, NoGroup)
         IN  IF m # <<>> THEN <<pos, m[1][1], m[1][2]>> ELSE search(r, s, pos + 1)

RECURSIVE scan(_, _, _, _)
\* the non-overlapping matches of the compiled pattern c in s from pos on, folded
\* being s lower-cased: the group's text when the pattern has a group, the whole
\* match otherwise. (After an empty match the scan moves on one character; no
\* pattern of the program matches the empty string.)
scan(c, s, folded, pos) ==
    LET m == search(c.re, folded, pos)
    IN  IF m = <<>> THEN <<>>
        ELSE LET item == IF c.groups = 0 THEN SubSeq(s, m[1], m[2] - 1)
                         ELSE IF m[3] = NoGroup THEN ""
                         ELSE SubSeq(s, m[3][1], m[3][2] - 1)
             IN  <<item>> \o scan(c, s, folded, IF m[2] = m[1] THEN m[2] + 1 ELSE m[2])

Digits1 == Plus(Cls(Digit))
Spaces0 == Star(Cls(Space))
Spaces1 == Plus(Cls(Space))
Letters1 == Plus(Cls(Alpha))

\* re's compilation of the patterns the program uses
re_compile(p) ==
    CASE p = "\\d+\\s*mg" -> [groups |-> 0, re |-> Cat(<<Digits1, Spaces0, Lit("mg")>>)]
      [] p = "\\d+\\s*g" -> [groups |-> 0, re |-> Cat(<<Digits1, Spaces0, Lit("g")>>)]
      [] p = "\\d+\\s*ml" -> [groups |-> 0, re |-> Cat(<<Digits1, Spaces0, Lit("ml")>>)]
      [] p = "\\d+\\s*mcg" -> [groups |-> 0, re |-> Cat(<<Digits1, Spaces0, Lit("mcg")>>)]
      [] p = "\\d+\\s*units?" ->
           [groups |-> 0, re |-> Cat(<<Digits1, Spaces0, Lit("unit"), Opt(Lit("s"))>>)]
      [] p = "\\d+\\s*tablets?" ->
           [groups |-> 0, re |-> Cat(<<Digits1, Spaces0, Lit("tablet"), Opt(Lit("s"))>>)]
      [] p = "\\d+\\s*capsules?" ->
           [groups |-> 0, re |-> Cat(<<Digits1, Spaces0, Lit("capsule"), Opt(Lit("s"))>>)]
      [] p = "once\\s+daily" -> [groups |-> 0, re |-> Cat(<<Lit("once"), Spaces1, Lit("daily")>>)]
      [] p = "twice\\s+daily" -> [groups |-> 0, re |-> Cat(<<Lit("twice"), Spaces1, Lit("daily")>>)]
      [] p = "thrice\\s+daily" ->
           [groups |-> 0, re |-> Cat(<<Lit("thrice"), Spaces1, Lit("daily")>>)]
      [] p = "\\d+\\s+times?\\s+daily" ->
           [groups |-> 0,
            re |-> Cat(<<Digits1, Spaces1, Lit("time"), Opt(Lit("s")), Spaces1, Lit("daily")>>)]
      [] p = "every\\s+\\d+\\s+hours?" ->
           [groups |-> 0,
            re |-> Cat(<<Lit("every"), Spaces1, Digits1, Spaces1, Lit("hour"), Opt(Lit("s"))>>)]
      [] p \in {"bid", "tid", "qid", "od", "bd", "morning", "evening", "night"} ->
           [groups |-> 0, re |-> Lit(p)]
      [] p = "\\b[A-Za-z]+(?:cillin|mycin|prazole|statin|dipine|formin)\\b" ->
           [groups |-> 0,
            re |-> Cat(<<WB, Letters1,
                         Alt(<<Lit("cillin"), Lit("mycin"), Lit("prazole"),
                               Lit("statin"), Lit("dipine"), Lit("formin")>>),
                         WB>>)]
      [] p = "\\b(?:tab|cap|syp|inj)[\\s\\.]*([A-Za-z]+(?:\\s+[A-Za-z]+)?)\\b" ->
           [groups |-> 1,
            re |-> Cat(<<WB, Alt(<<Lit("tab"), Lit("cap"), Lit("syp"), Lit("inj")>>),
                         Star(Cls(Space \cup {"."})),
                         Group(Cat(<<Letters1, Opt(Cat(<<Spaces1, Letters1>>))>>)),
                         WB>>)]
      [] p = "\\b([A-Za-z]{3,})\\s+\\d+\\s*(?:mg|g|ml|mcg)\\b" ->
           [groups |-> 1,
            re |-> Cat(<<WB, Group(AtLeast(3, Cls(Alpha))), Spaces1, Digits1, Spaces0,
                         Alt(<<Lit("mg"), Lit("g"), Lit("ml"), Lit("mcg")>>),
                         WB>>)]

\* findall falling back on the whole text when nothing matches
findall_or_text(pattern, text) ==
    LET found == scan(re_compile(pattern), text, lower(text), 1)
    IN  IF found = <<>> THEN <<text>> ELSE found

\* re.findall(pattern, text, re.IGNORECASE)
findall(pattern, text) == scan(re_compile(pattern), text, lower(text), 1)

(***************************************************************************)
(* Config (config.py): the values of the class attributes.                 *)
(***************************************************************************)
InitDosagePatterns ==
    <<"\\d+\\s*mg", "\\d+\\s*g", "\\d+\\s*ml", "\\d+\\s*mcg",
      "\\d+\\s*units?", "\\d+\\s*tablets?", "\\d+\\s*capsules?">>

InitFrequencyPatterns ==
    <<"once\\s+daily", "twice\\s+daily", "thrice\\s+daily", "\\d+\\s+times?\\s+daily",
      "every\\s+\\d+\\s+hours?", "bid", "tid", "qid", "od", "bd",
      "morning", "evening", "night">>

InitEcommerceSites ==
    <<[name |-> "1mg", url |-> "https://www.1mg.com",
       search_url |-> "https://www.1mg.com/search/all?name={}"],
      [name |-> "Netmeds", url |-> "https://www.netmeds.com",
       search_url |-> "https://www.netmeds.com/catalogsearch/result/{}/all"],
      [name |-> "PharmEasy", url |-> "https://pharmeasy.in",
       search_url |-> "https://pharmeasy.in/search/all?name={}"],
      [name |-> "Apollo Pharmacy", url |-> "https://www.apollopharmacy.in",
       search_url |-> "https://www.apollopharmacy.in/search-medicines/{}"]>>

\* the dict COMMON_DRUGS as its items in iteration (insertion) order
InitCommonDrugs ==
    <<[name |-> "paracetamol", synonyms |-> <<"acetaminophen", "tylenol", "crocin", "dolo">>],
      [name |-> "ibuprofen", synonyms |-> <<"brufen", "advil", "combiflam">>],
      [name |-> "amoxicillin", synonyms |-> <<"augmentin", "amoxil">>],
      [name |-> "metformin", synonyms |-> <<"glucophage", "glycomet">>],
      [name |-> "aspirin", synonyms |-> <<"disprin", "ecosprin">>],
      [name |-> "omeprazole", synonyms |-> <<"prilosec", "omez">>],
      [name |-> "atorvastatin", synonyms |-> <<"lipitor", "atorlip">>],
      [name |-> "amlodipine", synonyms |-> <<"norvasc", "amlovas">>]>>

\* os.getenv('GEMINI_API_KEY', ...) when the variable is not set
DefaultApiKey == "your_gemini_api_key_here"

(***************************************************************************)
(* PrescriptionAnalyzer (prescription_analyzer.py).                        *)
(***************************************************************************)
\* drug_patterns without the quantity-suffixed pattern
drug_patterns_without_quantity ==
    <<"\\b[A-Za-z]+(?:cillin|mycin|prazole|statin|dipine|formin)\\b",
      "\\b(?:tab|cap|syp|inj)[\\s\\.]*([A-Za-z]+(?:\\s+[A-Za-z]+)?)\\b">>

\* the local list drug_patterns of recognize_and_standardize_drugs
drug_patterns ==
    <<"\\b[A-Za-z]+(?:cillin|mycin|prazole|statin|dipine|formin)\\b",
      "\\b(?:tab|cap|syp|inj)[\\s\\.]*([A-Za-z]+(?:\\s+[A-Za-z]+)?)\\b",
      "\\b([A-Za-z]{3,})\\s+\\d+\\s*(?:mg|g|ml|mcg)\\b">>

\* the first of the indices S, the one a loop over the table reaches first, or 0
first_index(S) == IF S = {} THEN 0 ELSE CHOOSE k \in S : \A j \in S : k <= j

\* standardize_drug_name returning the lower-cased, trimmed name when nothing matches
standardize_drug_name_normalized(drug_name, drugs) ==
    LET drug_lower == strip(lower(drug_name))
        is_key(k) == drugs[k].name = drug_lower
        is_synonym(k) == in_list(drug_lower, drugs[k].synonyms)
        is_partial(k) ==
            LET names == <<drugs[k].name>> \o drugs[k].synonyms
            IN  \E n \in 1..Len(names) :
                    contains(drug_lower, names[n]) \/ contains(names[n], drug_lower)
        direct == first_index({k \in 1..Len(drugs) : is_key(k)})
        synonym == first_index({k \in 1..Len(drugs) : is_synonym(k)})
        partial == first_index({k \in 1..Len(drugs) : is_partial(k)})
    IN  IF direct # 0 THEN drug_lower
        ELSE IF synonym # 0 THEN drugs[synonym].name
        ELSE IF partial # 0 THEN drugs[partial].name
        ELSE drug_lower

\* standardize_drug_name, reading the table drugs
standardize_drug_name(drug_name, drugs) ==
    LET drug_lower == strip(lower(drug_name))
        is_key(k) == drugs[k].name = drug_lower
        is_synonym(k) == in_list(drug_lower, drugs[k].synonyms)
        is_partial(k) ==
            LET names == <<drugs[k].name>> \o drugs[k].synonyms
            IN  \E n \in 1..Len(names) :
                    contains(drug_lower, names[n]) \/ contains(names[n], drug_lower)
        direct == first_index({k \in 1..Len(drugs) : is_key(k)})
        synonym == first_index({k \in 1..Len(drugs) : is_synonym(k)})
        partial == first_index({k \in 1..Len(drugs) : is_partial(k)})
    IN  IF direct # 0 THEN drug_lower
        ELSE IF synonym # 0 THEN drugs[synonym].name
        ELSE IF partial # 0 THEN drugs[partial].name
        ELSE drug_name

RECURSIVE keep_long_as_written(_)
\* keep_long without the lower-casing
keep_long_as_written(matches) ==
    IF matches = <<>> THEN <<>>
    ELSE (IF Len(Head(matches)) > 2 THEN <<strip(Head(matches))>> ELSE <<>>)
         \o keep_long_as_written(Tail(matches))

RECURSIVE keep_long(_)
\* the matches of one pattern that pass  len(match) > 2 , lower-cased and stripped.
\* (Every pattern has at most one group, so findall yields strings and the tuple
\* branch of the loop is never taken.)
keep_long(matches) ==
    IF matches = <<>> THEN <<>>
    ELSE (IF Len(Head(matches)) > 2 THEN <<strip(lower(Head(matches)))>> ELSE <<>>)
         \o keep_long(Tail(matches))

\* candidates with the patterns tried from the last to the first
candidates_last_pattern_first(text) ==
    flatten([k \in 1..Len(drug_patterns) |->
                keep_long(findall(drug_patterns[Len(drug_patterns) + 1 - k], text))])

\* the list recognized_drugs after the pattern loop
candidates(text) ==
    flatten([k \in 1..Len(drug_patterns) |-> keep_long(findall(drug_patterns[k], text))])

RECURSIVE standardize_all_repeating(_, _, _)
\* standardize_all without the test  standardized not in standardized_drugs
standardize_all_repeating(recognized, drugs, acc) ==
    IF recognized = <<>> THEN acc
    ELSE LET standardized == standardize_drug_name(Head(recognized), drugs)
         IN  standardize_all_repeating(Tail(recognized), drugs,
                                       IF standardized # "" THEN Append(acc, standardized)
                                       ELSE acc)

RECURSIVE standardize_all(_, _, _)
\* the loop that fills standardized_drugs, acc being the list so far
standardize_all(recognized, drugs, acc) ==
    IF recognized = <<>> THEN acc
    ELSE LET standardized == standardize_drug_name(Head(recognized), drugs)
         IN  standardize_all(Tail(recognized), drugs,
                             IF standardized # "" /\ ~in_list(standardized, acc)
                             THEN Append(acc, standardized) ELSE acc)

\* recognize_and_standardize_drugs
recognize_and_standardize_drugs(text, drugs) == standardize_all(candidates(text), drugs, <<>>)

\* the list a pattern loop of validate_dosage_and_frequency builds with extend
all_matches(patterns, text) == flatten([k \in 1..Len(patterns) |-> findall(patterns[k], text)])

elements(xs) == {xs[i] : i \in 1..Len(xs)}

\* list_set without the set: the list as it was built
list_as_built(xs) == {xs}

\* list(set(xs)): the distinct elements of xs, in an order the hash seed decides
list_set(xs) ==
    LET S == elements(xs)
    IN  {f \in [1..Cardinality(S) -> S] : \A i, j \in 1..Cardinality(S) : i # j => f[i] # f[j]}

\* validate_dosage_and_frequency: the values it may return
validate_dosage_and_frequency(text, dosage_patterns, frequency_patterns) ==
    {[dosages |-> d, frequencies |-> f] :
        d \in list_set(all_matches(dosage_patterns, text)),
        f \in list_set(all_matches(frequency_patterns, text))}

\* str.format on a template with one slot {}
format(template, x) ==
    LET slots == {i \in 1..(Len(template) - 1) : SubSeq(template, i, i + 1) = "{}"}
    IN  IF slots = {} THEN template
        ELSE LET i == CHOOSE k \in slots : \A j \in slots : k <= j
             IN  SubSeq(template, 1, i - 1) \o x \o SubSeq(template, i + 2, Len(template))

\* the list drug_links built for one drug
drug_links(drug, sites) ==
    [k \in 1..Len(sites) |->
        [site_name |-> sites[k].name,
         url |-> format(sites[k].search_url, replace_space(drug))]]

\* get_ecommerce_links: the dict, as a function on its keys
get_ecommerce_links(drug_names, sites) ==
    [drug \in elements(drug_names) |-> drug_links(drug, sites)]

\* str(e) is appended to this prefix when OCR fails
OcrErrorPrefix == "Error in text extraction: "

\* extract_text_from_image: ocr is what cv2 and pytesseract do on the file, the text
\* they yield or the exception they raise
extract_text_from_image(ocr) == IF ocr.ok THEN strip(ocr.text) ELSE OcrErrorPrefix \o ocr.text

\* extract_text_from_pil_image returning the empty string when OCR raises
extract_text_from_pil_image_or_empty(ocr) == IF ocr.ok THEN strip(ocr.text) ELSE ""

\* extract_text_from_pil_image: the same steps on a PIL image
extract_text_from_pil_image(ocr) == IF ocr.ok THEN strip(ocr.text) ELSE OcrErrorPrefix \o ocr.text

GeminiErrorPrefix == "Gemini analysis error: "

\* analyze_with_gemini returning the empty string when the call raises
analyze_with_gemini_or_empty(gem) == IF gem.ok THEN gem.text ELSE ""

\* analyze_with_gemini: gem is what generate_content does, a response or an exception
analyze_with_gemini(gem) == IF gem.ok THEN gem.text ELSE GeminiErrorPrefix \o gem.text

MedicalGroups == {"CHEMICAL", "DISEASE", "GENE_OR_GENE_PRODUCT"}

RECURSIVE medical_only(_)
\* the loop of extract_medical_entities over the pipeline's entities
medical_only(entities) ==
    IF entities = <<>> THEN <<>>
    ELSE LET e == Head(entities)
         IN  (IF e.entity_group \in MedicalGroups
              THEN <<[text |-> e.word, label |-> e.entity_group, confidence |-> e.score]>>
              ELSE <<>>) \o medical_only(Tail(entities))

\* extract_medical_entities: ner is what the pipeline does, its entities or an exception
extract_medical_entities(pipeline, ner) ==
    IF pipeline = "none" THEN <<>>
    ELSE IF ner.ok THEN medical_only(ner.entities) ELSE <<>>

\* the text comprehensive_analysis works on; source.kind is "text" (is_image false),
\* "file" (an upload object) or "path"
extracted_text_of(source) ==
    CASE source.kind = "text" -> source.text
      [] source.kind = "file" -> extract_text_from_pil_image(source.ocr)
      [] source.kind = "path" -> extract_text_from_image(source.ocr)

\* comprehensive_analysis with the links built for the names as they were matched,
\* before standardize_drug_name resolved them
comprehensive_analysis_linking_matches(source, ner, gem, pipeline, dosage_patterns, frequency_patterns, drugs, sites) ==
    IF source.kind = "file" /\ ~source.opens
    THEN {[raised |-> TRUE, value |-> "UnidentifiedImageError"]}
    ELSE LET extracted_text == extracted_text_of(source)
             recognized == recognize_and_standardize_drugs(extracted_text, drugs)
         IN  {[raised |-> FALSE,
               value |-> [extracted_text |-> extracted_text,
                          recognized_drugs |-> recognized,
                          dosage_frequency |-> df,
                          medical_entities |-> extract_medical_entities(pipeline, ner),
                          gemini_analysis |-> analyze_with_gemini(gem),
                          ecommerce_links |->
                              get_ecommerce_links(candidates(extracted_text), sites)]] :
                 df \in validate_dosage_and_frequency(extracted_text, dosage_patterns,
                                                      frequency_patterns)}

\* comprehensive_analysis: the outcomes it may have. Image.open, on an upload object,
\* runs outside every try block, so its exception leaves the method.
comprehensive_analysis(source, ner, gem, pipeline, dosage_patterns, frequency_patterns, drugs, sites) ==
    IF source.kind = "file" /\ ~source.opens
    THEN {[raised |-> TRUE, value |-> "UnidentifiedImageError"]}
    ELSE LET extracted_text == extracted_text_of(source)
             recognized == recognize_and_standardize_drugs(extracted_text, drugs)
         IN  {[raised |-> FALSE,
               value |-> [extracted_text |-> extracted_text,
                          recognized_drugs |-> recognized,
                          dosage_frequency |-> df,
                          medical_entities |-> extract_medical_entities(pipeline, ner),
                          gemini_analysis |-> analyze_with_gemini(gem),
                          ecommerce_links |-> get_ecommerce_links(recognized, sites)]] :
                 df \in validate_dosage_and_frequency(extracted_text, dosage_patterns,
                                                      frequency_patterns)}

(***************************************************************************)
(* Inputs.                                                                 *)
(***************************************************************************)
MaxWords == 2
MaxDrugs == 2

Vocabulary == {"tab", "Crocin", "Zyx", "zz", "500mg", "twice daily"}

RECURSIVE join(_)
\* " ".join(words)
join(words) ==
    IF words = <<>> THEN ""
    ELSE IF Len(words) = 1 THEN words[1]
    ELSE words[1] \o " " \o join(Tail(words))

words_texts(n) == {join(ws) : ws \in UNION {[1..k -> Vocabulary] : k \in 0..n}}

RECURSIVE upper(_)
\* str.upper()
upper(s) ==
    IF s = "" THEN ""
    ELSE LET c == SubSeq(s, 1, 1)
             hit == {k \in 1..Len(LOWERCASE) : SubSeq(LOWERCASE, k, k) = c}
         IN  (IF hit = {} THEN c ELSE LET k == CHOOSE k \in hit : TRUE IN SubSeq(UPPERCASE, k, k))
             \o upper(SubSeq(s, 2, Len(s)))

\* str.capitalize() of a lower-case word
capitalize(s) == IF s = "" THEN "" ELSE upper(SubSeq(s, 1, 1)) \o SubSeq(s, 2, Len(s))

CanonicalNames == {InitCommonDrugs[k].name : k \in 1..Len(InitCommonDrugs)}
Aliases == UNION {elements(InitCommonDrugs[k].synonyms) : k \in 1..Len(InitCommonDrugs)}

Doses == {"5", "500"}

\* a canonical name in some letter case, written as a product name
Cased(name) == {name, capitalize(name), upper(name)}

\* '<Name> <n>mg twice daily'
form_text(name, n) == name \o " " \o n \o "mg twice daily"

\* the texts of that form, each with the canonical name and the dose it is made of
Forms ==
    UNION {{[name |-> name, n |-> n, text |-> form_text(cn, n)] : cn \in Cased(name), n \in Doses} :
              name \in CanonicalNames}

FormTexts == {f.text : f \in Forms}

ExtraTexts ==
    {"tab Crocin 500mg", "Tab. Augmentin 5 G BID", "dolomycin 500MG 500mg od",
     "Rx: Zyx 10 ml every 6 hours, cap zz", "2 tablets at night 2 tablets",
     "Amoxicillin tab Crocin, cap zz, Zyx 500mg, Tylenol 5 ml"}

\* the texts handed to the extraction operations
Texts == words_texts(MaxWords) \cup FormTexts \cup ExtraTexts

\* the texts handed to comprehensive_analysis
AnalysisTexts == words_texts(MaxWords - 1) \cup ExtraTexts

\* what OCR may yield: text, before its strip(), or the message of an exception
OcrOutcomes ==
    {[ok |-> TRUE, text |-> t] : t \in {"", " \n", " tab Crocin 500mg twice daily\n"}}
    \cup {[ok |-> FALSE, text |-> m] :
             m \in {"", "image is None", "decoding failed in module imgproc 215 g"}}

Sources ==
    {[kind |-> "text", text |-> t, opens |-> TRUE, ocr |-> [ok |-> TRUE, text |-> ""]] :
        t \in AnalysisTexts}
    \cup {[kind |-> k, text |-> "", opens |-> TRUE, ocr |-> o] :
             k \in {"file", "path"}, o \in OcrOutcomes}
    \cup {[kind |-> "file", text |-> "", opens |-> FALSE, ocr |-> [ok |-> TRUE, text |-> ""]]}

NerOutcomes ==
    {[ok |-> FALSE, entities |-> <<>>],
     [ok |-> TRUE,
      entities |-> <<[entity_group |-> "CHEMICAL", word |-> "crocin", score |-> 99],
                     [entity_group |-> "AGE", word |-> "45", score |-> 80],
                     [entity_group |-> "DISEASE", word |-> "fever", score |-> 71]>>]}

GeminiOutcomes ==
    {[ok |-> TRUE, text |-> "{\"medications\": [\"paracetamol\"]}"],
     [ok |-> FALSE, text |-> "API key not valid"]}

\* the arguments of standardize_drug_name
DrugNames ==
    CanonicalNames \cup Aliases
    \cup {"Crocin", "Augmentin", " crocin ", "PARACETAMOL", "OMEZ", "in", "ol", "", "lip",
          "dolomycin", "paracetamol twice", "tylenol 500", "xyz", "Xyz", " zed ", "zz"}

DrugLists ==
    UNION {[1..k -> {"paracetamol", "vitamin c", "zyx"}] : k \in 0..MaxDrugs}

EnvKeys == {DefaultApiKey, "env-key"}
EnteredKeys == {"", "user-key"}

(***************************************************************************)
(* The state machine.                                                      *)
(***************************************************************************)
\* the module and class level code of config.py, then PrescriptionAnalyzer.__init__
Init ==
    /\ DOSAGE_PATTERNS = InitDosagePatterns
    /\ FREQUENCY_PATTERNS = InitFrequencyPatterns
    /\ COMMON_DRUGS = InitCommonDrugs
    /\ MEDICAL_ECOMMERCE_SITES = InitEcommerceSites
    /\ GEMINI_API_KEY \in EnvKeys
    /\ config_key = "unset"
    /\ genai_key = GEMINI_API_KEY
    /\ ner_pipeline \in {"loaded", "none"}
    /\ pc = "idle"
    /\ op = "none"
    /\ arg = "none"
    /\ ret = "none"
    /\ raised = FALSE
    /\ seen = [noted |-> FALSE, text |-> "", result |-> <<>>]

\* Config.setup_gemini: a static method, it reads the class attribute
setup_gemini == GEMINI_API_KEY

Returns(name, a, r) ==
    /\ pc' = "done"
    /\ op' = name
    /\ arg' = a
    /\ ret' = r
    /\ raised' = FALSE

CallStandardize(name) ==
    /\ pc = "idle"
    /\ Returns("standardize_drug_name", name, standardize_drug_name(name, COMMON_DRUGS))
    /\ UNCHANGED <<tables, keys, seen>>

CallRecognize(text) ==
    /\ pc = "idle"
    /\ Returns("recognize_and_standardize_drugs", text,
               recognize_and_standardize_drugs(text, COMMON_DRUGS))
    /\ UNCHANGED <<tables, keys, seen>>

CallValidate(text) ==
    /\ pc = "idle"
    /\ \E r \in validate_dosage_and_frequency(text, DOSAGE_PATTERNS, FREQUENCY_PATTERNS) :
           Returns("validate_dosage_and_frequency", text, r)
    /\ UNCHANGED <<tables, keys, seen>>

\* CallLinks with the sites' templates filled in place
CallLinks_in_place(drug_names) ==
    /\ pc = "idle"
    /\ Returns("get_ecommerce_links", drug_names,
               get_ecommerce_links(drug_names, MEDICAL_ECOMMERCE_SITES))
    /\ MEDICAL_ECOMMERCE_SITES' =
         [k \in 1..Len(MEDICAL_ECOMMERCE_SITES) |->
            [MEDICAL_ECOMMERCE_SITES[k] EXCEPT
               !.search_url = IF drug_names = <<>> THEN @
                              ELSE format(@, replace_space(drug_names[Len(drug_names)]))]]
    /\ UNCHANGED <<DOSAGE_PATTERNS, FREQUENCY_PATTERNS, COMMON_DRUGS, keys, seen>>

CallLinks(drug_names) ==
    /\ pc = "idle"
    /\ Returns("get_ecommerce_links", drug_names,
               get_ecommerce_links(drug_names, MEDICAL_ECOMMERCE_SITES))
    /\ UNCHANGED <<tables, keys, seen>>

CallAnalysis(source) ==
    /\ pc = "idle"
    /\ \E ner \in NerOutcomes, gem \in GeminiOutcomes :
         \E r \in comprehensive_analysis(source, ner, gem, ner_pipeline, DOSAGE_PATTERNS,
                                         FREQUENCY_PATTERNS, COMMON_DRUGS,
                                         MEDICAL_ECOMMERCE_SITES) :
           /\ pc' = "done"
           /\ op' = "comprehensive_analysis"
           /\ arg' = [source |-> source, ner |-> ner, gem |-> gem]
           /\ ret' = r.value
           /\ raised' = r.raised
    /\ UNCHANGED <<tables, keys, seen>>

\* main() of app.py, the sidebar's key field: the assignment makes an attribute of
\* the Config instance; setup_gemini then configures genai
UpdateApiKey(api_key_input) ==
    /\ pc = "idle"
    /\ api_key_input # ""
    /\ config_key' = api_key_input
    /\ genai_key' = setup_gemini
    /\ UNCHANGED <<tables, GEMINI_API_KEY, ner_pipeline, pc, op, arg, ret, raised, seen>>

\* the caller drops the result
Discard ==
    /\ pc = "done"
    /\ pc' = "idle"
    /\ op' = "none"
    /\ arg' = "none"
    /\ ret' = "none"
    /\ raised' = FALSE
    /\ UNCHANGED <<tables, keys, seen>>

Next ==
    \/ \E name \in DrugNames : CallStandardize(name)
    \/ \E text \in Texts : CallRecognize(text)
    \/ \E text \in Texts : CallValidate(text)
    \/ \E drug_names \in DrugLists : CallLinks(drug_names)
    \/ \E source \in Sources : CallAnalysis(source)
    \/ \E k \in EnteredKeys : UpdateApiKey(k)
    \/ Discard

Spec == Init /\ [][Next]_vars

(***************************************************************************)
(* The same machine with a history of recognize_and_standardize_drugs: the *)
(* first call is noted, and later calls are compared with it.              *)
(***************************************************************************)
\* the texts recognize_and_standardize_drugs is called on again
RepeatTexts ==
    ExtraTexts \cup {"", "tab Crocin", "Zyx 500mg", "tab Crocin Zyx 500mg",
                     "Paracetamol 500mg twice daily"}

RepeatSources ==
    {src \in Sources :
        \/ src.kind = "text" /\ src.text = "tab Crocin 500mg"
        \/ src.kind = "file" /\ src.ocr.text \in {"", "image is None"}}

RepeatNames == {"Crocin", "dolomycin", "zz"}

RepeatLists == {<<>>, <<"zyx">>, <<"paracetamol", "vitamin c">>}

\* CallRecognizeNoted with the list of names kept on the analyzer between calls
CallRecognizeNoted_keeping_list(text) ==
    /\ pc = "idle"
    /\ LET kept == IF seen.noted THEN seen.kept ELSE <<>>
           r == standardize_all(candidates(text), COMMON_DRUGS, kept)
       IN  /\ Returns("recognize_and_standardize_drugs", text, r)
           /\ seen' = IF seen.noted THEN [seen EXCEPT !.kept = r]
                      ELSE [noted |-> TRUE, text |-> text, result |-> r, kept |-> r]
    /\ UNCHANGED <<tables, keys>>

\* recognize_and_standardize_drugs, the first call being noted
CallRecognizeNoted(text) ==
    /\ pc = "idle"
    /\ LET r == recognize_and_standardize_drugs(text, COMMON_DRUGS)
       IN  /\ Returns("recognize_and_standardize_drugs", text, r)
           /\ seen' = IF seen.noted THEN seen
                      ELSE [noted |-> TRUE, text |-> text, result |-> r]
    /\ UNCHANGED <<tables, keys>>

NextRepeat ==
    \/ \E text \in RepeatTexts : CallRecognizeNoted(text)
    \/ \E name \in RepeatNames : CallStandardize(name)
    \/ \E text \in RepeatTexts : CallValidate(text)
    \/ \E drug_names \in RepeatLists : CallLinks(drug_names)
    \/ \E source \in RepeatSources : CallAnalysis(source)
    \/ \E k \in EnteredKeys : UpdateApiKey(k)
    \/ Discard

SpecRepeat == Init /\ [][NextRepeat]_vars

(***************************************************************************)
(* Properties.                                                             *)
(***************************************************************************)
Returned(name) == pc = "done" /\ op = name /\ ~raised

no_duplicates(xs) == \A i, j \in 1..Len(xs) : i # j => xs[i] # xs[j]

\* C1: the sequence recognize_and_standardize_drugs returns holds no name twice,
\* whatever the text (also as the field recognized_drugs of an analysis record).
C1_NoDuplicateDrugs ==
    /\ Returned("recognize_and_standardize_drugs") => no_duplicates(ret)
    /\ Returned("comprehensive_analysis") => no_duplicates(ret.recognized_drugs)

\* C1 witness: two candidates ("crocin" twice) resolved to one name, returned once
C1_Witness ==
    /\ Returned("recognize_and_standardize_drugs")
    /\ arg = "tab Crocin 500mg"
    /\ candidates(arg) = <<"crocin", "crocin">>
    /\ ret = <<"paracetamol">>

\* the rules of standardize_drug_name, stated on the table
is_canonical(c, drugs) == \E k \in 1..Len(drugs) : drugs[k].name = c
alias_of(c, drugs) == {k \in 1..Len(drugs) : in_list(c, drugs[k].synonyms)}
partial_of(c, drugs) ==
    {k \in 1..Len(drugs) :
        \E n \in {drugs[k].name} \cup elements(drugs[k].synonyms) :
            contains(c, n) \/ contains(n, c)}
least(S) == CHOOSE k \in S : \A j \in S : k <= j

\* the result the four rules give for the argument a, the fallback being fallback
by_rules(a, drugs, fallback) ==
    LET c == strip(lower(a))
    IN  IF is_canonical(c, drugs) THEN c
        ELSE IF alias_of(c, drugs) # {} THEN drugs[least(alias_of(c, drugs))].name
        ELSE IF partial_of(c, drugs) # {} THEN drugs[least(partial_of(c, drugs))].name
        ELSE fallback

\* C2 as stated: standardize_drug_name resolves c, its argument lower-cased and
\* trimmed, by the first rule that applies: (a) c canonical -> c, (b) c an alias ->
\* its canonical name, (c) substring match -> the first such entry, (d) c unchanged.
C2_RulesReturnCandidate ==
    Returned("standardize_drug_name") => ret = by_rules(arg, COMMON_DRUGS, strip(lower(arg)))

\* C2 amended: rules (a) to (c) as stated, every alias resolving to its own
\* canonical name ('Crocin' to 'paracetamol', 'Augmentin' to 'amoxicillin'), an
\* alias match going before any substring match; (d) returns the argument as it
\* was passed, neither lower-cased nor trimmed.
C2_RulesReturnArgument ==
    Returned("standardize_drug_name") =>
        /\ ret = by_rules(arg, COMMON_DRUGS, arg)
        /\ \A k \in alias_of(strip(lower(arg)), COMMON_DRUGS) : ret = COMMON_DRUGS[k].name
        /\ arg = "Crocin" => ret = "paracetamol"
        /\ arg = "Augmentin" => ret = "amoxicillin"

\* C2 witness: an argument no rule resolves comes back in its own letter case
C2_Witness ==
    /\ Returned("standardize_drug_name")
    /\ arg = "Xyz"
    /\ partial_of("xyz", COMMON_DRUGS) = {}
    /\ ret = "Xyz"

is_analysis == pc = "done" /\ op = "comprehensive_analysis"

\* the text source of the analysis that ran is an image whose OCR raised
ocr_failed == is_analysis /\ arg.source.kind # "text" /\ arg.source.opens /\ ~arg.source.ocr.ok

\* the text source of the analysis that ran gave the empty string
source_empty ==
    /\ is_analysis
    /\ arg.source.opens
    /\ \/ arg.source.kind = "text" /\ arg.source.text = ""
       \/ arg.source.kind # "text" /\ arg.source.ocr.ok /\ strip(arg.source.ocr.text) = ""

nothing_found(r) ==
    /\ r.recognized_drugs = <<>>
    /\ r.dosage_frequency.dosages = <<>>
    /\ r.dosage_frequency.frequencies = <<>>

\* C3 as stated: when OCR raises or the source gives the empty string, the analysis
\* goes on with an empty text and returns no drug, no dosage and no frequency, and
\* raises nothing.
C3_FailureGivesEmptyText ==
    (ocr_failed \/ source_empty) => ~raised /\ ret.extracted_text = "" /\ nothing_found(ret)

\* C3 amended: neither case raises. When the source gives the empty string the
\* record has an empty text, no drug, no dosage and no frequency. When OCR raises,
\* the text of the record is 'Error in text extraction: ' followed by the message of
\* the exception, and drugs, dosages and frequencies are those the extraction finds
\* in that text (none in the prefix alone).
C3_FailureGivesErrorText ==
    /\ source_empty => ~raised /\ ret.extracted_text = "" /\ nothing_found(ret)
    /\ ocr_failed =>
         /\ ~raised
         /\ ret.extracted_text = "Error in text extraction: " \o arg.source.ocr.text
         /\ ret.recognized_drugs = recognize_and_standardize_drugs(ret.extracted_text, COMMON_DRUGS)
         /\ elements(ret.dosage_frequency.dosages)
              = elements(all_matches(DOSAGE_PATTERNS, ret.extracted_text))
         /\ elements(ret.dosage_frequency.frequencies)
              = elements(all_matches(FREQUENCY_PATTERNS, ret.extracted_text))
         /\ arg.source.ocr.text = "" => nothing_found(ret)

\* C3 witness: OCR raised, and a dosage and a frequency were read off the message
C3_Witness ==
    /\ ocr_failed
    /\ ~raised
    /\ ret.extracted_text = "Error in text extraction: decoding failed in module imgproc 215 g"
    /\ ret.dosage_frequency.dosages = <<"215 g">>
    /\ ret.dosage_frequency.frequencies = <<"od">>

AnalysisFields ==
    {"extracted_text", "recognized_drugs", "dosage_frequency", "medical_entities",
     "gemini_analysis", "ecommerce_links"}

ner_failed == is_analysis /\ (ner_pipeline = "none" \/ ~arg.ner.ok)
gemini_failed == is_analysis /\ ~arg.gem.ok

\* C4: comprehensive_analysis never ends with an exception because NER or the
\* generative call failed (it raises only when the upload cannot be opened). The
\* record has the six fields; a failed NER gives no entities, a failed generative
\* call an analysis holding 'error', and the other fields are what the text alone
\* decides, whatever the two collaborators did.
C4_CollaboratorFailureTolerated ==
    is_analysis =>
        /\ raised <=> (arg.source.kind = "file" /\ ~arg.source.opens)
        /\ ~raised =>
             /\ DOMAIN ret = AnalysisFields
             /\ ner_failed => ret.medical_entities = <<>>
             /\ gemini_failed => contains(ret.gemini_analysis, "error")
             /\ ret.extracted_text = extracted_text_of(arg.source)
             /\ ret.recognized_drugs
                  = recognize_and_standardize_drugs(ret.extracted_text, COMMON_DRUGS)
             /\ elements(ret.dosage_frequency.dosages)
                  = elements(all_matches(DOSAGE_PATTERNS, ret.extracted_text))
             /\ elements(ret.dosage_frequency.frequencies)
                  = elements(all_matches(FREQUENCY_PATTERNS, ret.extracted_text))
             /\ ret.ecommerce_links
                  = get_ecommerce_links(ret.recognized_drugs, MEDICAL_ECOMMERCE_SITES)

\* C4 witness: both collaborators failed and the record still names the drug
C4_Witness ==
    /\ is_analysis
    /\ ner_pipeline = "loaded"
    /\ ~arg.ner.ok
    /\ ~arg.gem.ok
    /\ ~raised
    /\ ret.recognized_drugs = <<"paracetamol">>
    /\ ret.medical_entities = <<>>
    /\ ret.gemini_analysis = "Gemini analysis error: API key not valid"

RECURSIVE spaces_escaped(_, _)
\* e is d with every space written %20 and every other character kept
spaces_escaped(d, e) ==
    IF d = "" THEN e = ""
    ELSE IF SubSeq(d, 1, 1) = " "
    THEN Len(e) >= 3 /\ SubSeq(e, 1, 3) = "%20"
         /\ spaces_escaped(SubSeq(d, 2, Len(d)), SubSeq(e, 4, Len(e)))
    ELSE Len(e) >= 1 /\ SubSeq(e, 1, 1) = SubSeq(d, 1, 1)
         /\ spaces_escaped(SubSeq(d, 2, Len(d)), SubSeq(e, 2, Len(e)))

\* url is template with its one slot {} filled by the drug name, spaces escaped
fills_slot(url, template, drug) ==
    \E i \in 1..(Len(template) - 1) :
        /\ SubSeq(template, i, i + 1) = "{}"
        /\ \A j \in 1..(Len(template) - 1) : SubSeq(template, j, j + 1) = "{}" => j = i
        /\ LET tail == Len(template) - (i + 1)
           IN  /\ Len(url) >= (i - 1) + tail
               /\ SubSeq(url, 1, i - 1) = SubSeq(template, 1, i - 1)
               /\ SubSeq(url, Len(url) - tail + 1, Len(url))
                    = SubSeq(template, i + 2, Len(template))
               /\ spaces_escaped(drug, SubSeq(url, i, Len(url) - tail))

\* C5: get_ecommerce_links returns one key per distinct drug of its input; each key
\* maps to one link per partner site, in the order of MEDICAL_ECOMMERCE_SITES, with
\* the site's name and the site's search URL, its slot filled by the drug name with
\* every space written %20. For ['paracetamol'] that is one entry, one link a site.
C5_LinksPerDrugAndSite ==
    Returned("get_ecommerce_links") =>
        /\ DOMAIN ret = elements(arg)
        /\ \A drug \in DOMAIN ret :
             /\ Len(ret[drug]) = Len(MEDICAL_ECOMMERCE_SITES)
             /\ \A k \in 1..Len(ret[drug]) :
                  /\ DOMAIN ret[drug][k] = {"site_name", "url"}
                  /\ ret[drug][k].site_name = MEDICAL_ECOMMERCE_SITES[k].name
                  /\ fills_slot(ret[drug][k].url, MEDICAL_ECOMMERCE_SITES[k].search_url, drug)
        /\ arg = <<"paracetamol">> =>
             /\ DOMAIN ret = {"paracetamol"}
             /\ [k \in 1..Len(ret["paracetamol"]) |-> ret["paracetamol"][k].url]
                  = <<"https://www.1mg.com/search/all?name=paracetamol",
                      "https://www.netmeds.com/catalogsearch/result/paracetamol/all",
                      "https://pharmeasy.in/search/all?name=paracetamol",
                      "https://www.apollopharmacy.in/search-medicines/paracetamol">>

\* C5 witness: a drug named twice has one key, and its space is escaped in the URLs
C5_Witness ==
    /\ Returned("get_ecommerce_links")
    /\ arg = <<"vitamin c", "vitamin c">>
    /\ DOMAIN ret = {"vitamin c"}
    /\ Len(ret["vitamin c"]) = Len(InitEcommerceSites)
    /\ ret["vitamin c"][2]
         = [site_name |-> "Netmeds",
            url |-> "https://www.netmeds.com/catalogsearch/result/vitamin%20c/all"]

\* C6: on the empty text recognize_and_standardize_drugs returns the empty sequence
\* and validate_dosage_and_frequency no dosage and no frequency; neither raises.
C6_EmptyTextGivesNothing ==
    /\ (pc = "done" /\ op = "recognize_and_standardize_drugs" /\ arg = "")
         => ~raised /\ ret = <<>>
    /\ (pc = "done" /\ op = "validate_dosage_and_frequency" /\ arg = "")
         => ~raised /\ ret = [dosages |-> <<>>, frequencies |-> <<>>]

\* C6 witness: validate_dosage_and_frequency has returned for the empty text
C6_Witness ==
    /\ Returned("validate_dosage_and_frequency")
    /\ arg = ""
    /\ ret.dosages = <<>>

\* what the three pattern families capture in the text, before the length filter
captures(text) == flatten([k \in 1..Len(drug_patterns) |-> findall(drug_patterns[k], text)])

\* c matches no canonical name and no alias, neither exactly nor by substring
unresolved(c, drugs) ==
    ~is_canonical(c, drugs) /\ alias_of(c, drugs) = {} /\ partial_of(c, drugs) = {}

C8_NameDoseFrequencyFound ==
    (pc = "done" /\ op \in {"recognize_and_standardize_drugs", "validate_dosage_and_frequency"}) =>
        \A f \in Forms :
            arg = f.text =>
                /\ ~raised
                /\ is_canonical(f.name, COMMON_DRUGS)
                /\ op = "recognize_and_standardize_drugs" => in_list(f.name, ret)
                /\ op = "validate_dosage_and_frequency" =>
                     /\ in_list(f.n \o "mg", ret.dosages)
                     /\ in_list("twice daily", ret.frequencies)

\* C8 witness: the drug of 'Paracetamol 500mg twice daily' was recognized
C8_Witness ==
    /\ Returned("recognize_and_standardize_drugs")
    /\ arg = "Paracetamol 500mg twice daily"
    /\ [name |-> "paracetamol", n |-> "500", text |-> arg] \in Forms
    /\ ret = <<"paracetamol">>

\* t, as a whole, matches pattern p (case-insensitively)
full_match(p, t) ==
    \E m \in elements(match_here(re_compile(p).re, lower(t), 1, NoGroup)) : m[1] = Len(t) + 1

\* C9: validate_dosage_and_frequency returns the matches of all dosage patterns in
\* the text, found case-insensitively, as one collection without a repeated string,
\* and the matches of the frequency patterns likewise; the dosages depend on the
\* text and the dosage patterns alone, the frequencies on the text and the frequency
\* patterns alone. Both are empty when nothing matches, and nothing is raised.
C9_AllMatchesOnce ==
    (pc = "done" /\ op = "validate_dosage_and_frequency") =>
        /\ ~raised
        /\ DOMAIN ret = {"dosages", "frequencies"}
        /\ no_duplicates(ret.dosages)
        /\ no_duplicates(ret.frequencies)
        /\ elements(ret.dosages) = elements(all_matches(DOSAGE_PATTERNS, arg))
        /\ elements(ret.frequencies) = elements(all_matches(FREQUENCY_PATTERNS, arg))
        /\ \A d \in elements(ret.dosages) :
             contains(arg, d) /\ \E k \in 1..Len(DOSAGE_PATTERNS) : full_match(DOSAGE_PATTERNS[k], d)
        /\ \A f \in elements(ret.frequencies) :
             contains(arg, f)
             /\ \E k \in 1..Len(FREQUENCY_PATTERNS) : full_match(FREQUENCY_PATTERNS[k], f)

\* C9 witness: '500mg' written twice is returned once, beside '500MG' that the
\* case-insensitive match found; 'od' comes from inside 'dolomycin... od'
C9_Witness ==
    /\ Returned("validate_dosage_and_frequency")
    /\ arg = "dolomycin 500MG 500mg od"
    /\ ret.dosages = <<"500MG", "500mg">>
    /\ ret.frequencies = <<"od">>

\* C10: the four tables of Config keep the values they had at initialization through
\* every operation of the analyzer and through the API-key update of the UI.
C10_TablesNeverChange ==
    /\ DOSAGE_PATTERNS = InitDosagePatterns
    /\ FREQUENCY_PATTERNS = InitFrequencyPatterns
    /\ COMMON_DRUGS = InitCommonDrugs
    /\ MEDICAL_ECOMMERCE_SITES = InitEcommerceSites

\* C10 witness: the key was updated and an analysis has run since
C10_Witness ==
    /\ config_key = "user-key"
    /\ Returned("comprehensive_analysis")
    /\ ret.ecommerce_links # <<>>
    /\ tables = <<InitDosagePatterns, InitFrequencyPatterns, InitCommonDrugs, InitEcommerceSites>>

\* C11: recognize_and_standardize_drugs called again on a text it was called on
\* before, with any other operations of the analyzer and the key update in between,
\* returns the same names in the same order.
C11_SameTextSameDrugs ==
    (Returned("recognize_and_standardize_drugs") /\ seen.noted /\ seen.text = arg)
        => ret = seen.result

\* C11 witness: a second call on the noted text, after the key was updated and
\* with a result of two names whose order matters
C11_Witness ==
    /\ Returned("recognize_and_standardize_drugs")
    /\ seen.noted
    /\ seen.text = "tab Crocin Zyx 500mg"
    /\ arg = seen.text
    /\ config_key = "user-key"
    /\ ret = <<"paracetamol", "zyx">>
    /\ ret = seen.result

is_long(match) == Len(match) > 2

\* the resolved names, one for each match of the three patterns that is longer than 2
resolved(text) ==
    LET long == SelectSeq(all_matches(drug_patterns, text), is_long)
    IN  [i \in 1..Len(long) |-> standardize_drug_name(strip(lower(long[i])), COMMON_DRUGS)]

\* xs without the elements that occurred earlier in it
first_occurrences(xs) ==
    LET firsts == {i \in 1..Len(xs) : \A j \in 1..(i - 1) : xs[j] # xs[i]}
        rank(i) == Cardinality({j \in firsts : j <= i})
    IN  [n \in 1..Cardinality(firsts) |-> xs[CHOOSE i \in firsts : rank(i) = n]]

well_formed(name) == name = lower(name) /\ name = strip(name) /\ Len(name) > 2

\* C13: the result of recognize_and_standardize_drugs is the matches of the suffix
\* pattern in text order, then those of the dosage-form pattern, then those of the
\* quantity pattern, without the matches of length <= 2, each lower-cased, trimmed
\* and resolved by standardize_drug_name, every resolved name kept once at its first
\* place; and every returned name is lower-case, trimmed and longer than 2.
C13_PipelineAndShape ==
    Returned("recognize_and_standardize_drugs") =>
        /\ ret = first_occurrences(resolved(arg))
        /\ \A i \in 1..Len(ret) : well_formed(ret[i])

\* a text where every step acts: matches of all three patterns, a match of length 2
\* ("zz"), an alias written in capitals, and two aliases of one name
C13_Witness ==
    /\ Returned("recognize_and_standardize_drugs")
    /\ arg = "Amoxicillin tab Crocin, cap zz, Zyx 500mg, Tylenol 5 ml"
    /\ all_matches(drug_patterns, arg) = <<"Amoxicillin", "Crocin", "zz", "Zyx", "Tylenol">>
    /\ ret = <<"amoxicillin", "paracetamol", "zyx">>

\* C12: once the user has entered a non-empty key in the sidebar, the key that
\* setup_gemini passed to genai.configure is the entered key, not the key read from
\* the environment at start-up.
C12_EnteredKeyConfigured ==
    config_key # "unset" => genai_key = config_key

\* C14: in every record comprehensive_analysis returns, the keys of ecommerce_links
\* are exactly the names in recognized_drugs and every key maps to as many links as
\* there are partner sites, so the lookup ecommerce_links[drug] of the page finds an
\* entry for each recognized drug.
C14_LinksForRecognizedDrugs ==
    (is_analysis /\ ~raised) =>
        /\ DOMAIN ret.ecommerce_links = elements(ret.recognized_drugs)
        /\ \A drug \in DOMAIN ret.ecommerce_links :
             Len(ret.ecommerce_links[drug]) = Len(MEDICAL_ECOMMERCE_SITES)

\* an analysis that recognized three drugs, two of them written as aliases
C14_Witness ==
    /\ is_analysis
    /\ ~raised
    /\ ret.extracted_text = "Amoxicillin tab Crocin, cap zz, Zyx 500mg, Tylenol 5 ml"
    /\ ret.recognized_drugs = <<"amoxicillin", "paracetamol", "zyx">>
    /\ DOMAIN ret.ecommerce_links = {"amoxicillin", "paracetamol", "zyx"}
    /\ Len(ret.ecommerce_links["paracetamol"]) = 4

=============================================================================
